---------------------------- MODULE Spec2Model ----------------------------
(***************************************************************************)
(* A model of libcliparser's CliParser: the option registry (cliOptions),  *)
(* the declaration operations option()/flag(), the argv scan of parse()    *)
(* and the read-only queries.                                              *)
(*                                                                         *)
(* Text is modelled as a sequence of one-character strings, so that        *)
(* find_first_of, the split at '=', std::stoi and the bool spellings are   *)
(* computed character by character as the code computes them.              *)
(***************************************************************************)
EXTENDS Integers, Sequences, FiniteSets, TLC

VARIABLES
    cliOptions,      \* CliParser::cliOptions: name -> [kind, info, arg]
    executablePath,  \* CliParser::executablePath
    pc,              \* "idle" | "scan" (inside parse's while loop) | "done" | "crashed"
    argv,            \* the argument array of the running / last parse call
    ignoreUnknownOptions,                  \* parse's third parameter
    suppressMissingRequiredOptionsError,   \* parse's fourth parameter
    i,               \* parse's loop index
    ret              \* what the last call did: [op, name, err, names, at]

vars == <<cliOptions, executablePath, pc, argv, ignoreUnknownOptions,
          suppressMissingRequiredOptionsError, i, ret>>

-----------------------------------------------------------------------------
(* Bounds of the model.                                                    *)

\* longest argument array handed to parse by the general specification
MaxArgc == 3
\* most records the general specification lets the registry hold
MaxOptions == 3

-----------------------------------------------------------------------------
(* Text helpers.                                                           *)

Digits == <<"0", "1", "2", "3", "4", "5", "6", "7", "8", "9">>

IsDigit(c) == \E d \in 1..10 : Digits[d] = c

DigitVal(c) == (CHOOSE d \in 1..10 : Digits[d] = c) - 1

\* std::isspace in the "C" locale, over the characters the model uses
IsSpace(c) == c \in {" ", "\t", "\n"}

Drop(s, n) == SubSeq(s, n + 1, Len(s))

Take(s, n) == SubSeq(s, 1, n)

\* position (1-based) of the first character of s that is in chars; 0 is npos
find_first_of(s, chars) ==
    IF \E p \in 1..Len(s) : s[p] \in chars
    THEN CHOOSE p \in 1..Len(s) : s[p] \in chars /\ \A r \in 1..(p - 1) : s[r] \notin chars
    ELSE 0

\* the A-Z -> a-z fold of parseArg<bool>: *it += (*it >= 'A' && *it <= 'Z') * 32
Upper == <<"A", "B", "C", "D", "E", "F", "G", "H", "I", "J", "K", "L", "M",
           "N", "O", "P", "Q", "R", "S", "T", "U", "V", "W", "X", "Y", "Z">>

Lower == <<"a", "b", "c", "d", "e", "f", "g", "h", "i", "j", "k", "l", "m",
           "n", "o", "p", "q", "r", "s", "t", "u", "v", "w", "x", "y", "z">>

ToLowerCharNone(c) == c

ToLowerChar(c) ==
    IF \E u \in 1..26 : Upper[u] = c
    THEN Lower[CHOOSE u \in 1..26 : Upper[u] = c]
    ELSE c

ToLower(s) == [p \in 1..Len(s) |-> ToLowerChar(s[p])]

-----------------------------------------------------------------------------
(* OptionBase::OPTION_INFO, a bit set held in one char.                    *)

BAD_OPTION == 0
REQUIRED == 1
OPTIONAL == 2
FLAG_BIT == 4
SET_BY_USER == 8

\* bit w (a power of two) of a
Bit(a, w) == (a \div w) % 2

\* a & b, over the four bits OPTION_INFO uses
BitAnd(a, b) ==
    Bit(a, 1) * Bit(b, 1) + 2 * Bit(a, 2) * Bit(b, 2)
        + 4 * Bit(a, 4) * Bit(b, 4) + 8 * Bit(a, 8) * Bit(b, 8)

BitOr(a, b) == a + b - BitAnd(a, b)

BitXor(a, b) == a + b - 2 * BitAnd(a, b)

FLAG == BitOr(FLAG_BIT, OPTIONAL)
REQUIRED_PROVIDED_BY_USER == BitOr(REQUIRED, SET_BY_USER)
OPTIONAL_OVERRIDEN_BY_USER == BitOr(OPTIONAL, SET_BY_USER)
FLAG_OVERRIDEN_BY_USER == BitOr(FLAG, SET_BY_USER)

goodWrong(info) == BitAnd(info, SET_BY_USER) # 0

good(info) == BitAnd(info, OPTIONAL_OVERRIDEN_BY_USER) # 0

isOptional(info) == BitAnd(info, OPTIONAL) # 0

isSetByUser(info) == BitAnd(info, SET_BY_USER) # 0

isFlagWrong(info) == BitAnd(info, FLAG) # 0

isFlag(info) == BitAnd(info, BitXor(FLAG, OPTIONAL)) # 0

-----------------------------------------------------------------------------
(* Value kinds and parseArg.                                               *)

\* the types that satisfy CliParsableArgument
Kinds == {"int", "long", "long long", "bool", "float", "double", "long double", "string"}

IntKinds == {"int", "long", "long long"}

FloatKinds == {"float", "double", "long double"}


\* a char* argument: argv[k] for k < argc, or the terminating null pointer argv[argc]
Ptr(s) == [null |-> FALSE, s |-> s]

NullPtr == [null |-> TRUE, s |-> <<>>]

\* the value a floating-point kind holds: m * 10^e, m not a multiple of 10 unless 0
RECURSIVE Dec(_, _)
Dec(m, e) ==
    IF m = 0 THEN [m |-> 0, e |-> 0]
    ELSE IF m % 10 = 0 THEN Dec(m \div 10, e + 1)
    ELSE [m |-> m, e |-> e]

\* the content of `arg` that is never read: a Required record before it is set
\* (getOption tests good() first), and the value slot of a failed conversion
Indeterminate(kind) ==
    IF kind \in IntKinds THEN 0
    ELSE IF kind \in FloatKinds THEN Dec(0, 0)
    ELSE IF kind = "bool" THEN FALSE
    ELSE <<>>

\* number of leading characters of s that satisfy the test (digits / spaces)
RECURSIVE DigitRun(_)
DigitRun(s) == IF s # <<>> /\ IsDigit(s[1]) THEN 1 + DigitRun(Tail(s)) ELSE 0

RECURSIVE SpaceRun(_)
SpaceRun(s) == IF s # <<>> /\ IsSpace(s[1]) THEN 1 + SpaceRun(Tail(s)) ELSE 0

RECURSIVE StripZeros(_)
StripZeros(ds) == IF Len(ds) > 1 /\ ds[1] = "0" THEN StripZeros(Tail(ds)) ELSE ds

\* a <= b for digit strings without leading zeros
RECURSIVE DigitsLE(_, _)
DigitsLE(a, b) ==
    IF Len(a) # Len(b) THEN Len(a) < Len(b)
    ELSE IF a = <<>> THEN TRUE
    ELSE IF a[1] # b[1] THEN DigitVal(a[1]) < DigitVal(b[1])
    ELSE DigitsLE(Tail(a), Tail(b))

\* INT_MAX; LONG_MAX and LLONG_MAX (LP64: long is 64 bits wide)
MaxDigits(kind) ==
    IF kind = "int" THEN <<"2", "1", "4", "7", "4", "8", "3", "6", "4", "7">>
    ELSE <<"9", "2", "2", "3", "3", "7", "2", "0", "3", "6", "8", "5", "4", "7", "7",
           "5", "8", "0", "7">>

\* |INT_MIN| etc.: one more than the maximum
MinDigits(kind) == [MaxDigits(kind) EXCEPT ![Len(MaxDigits(kind))] = "8"]

\* the signed value of a digit string, accumulated with the sign applied
RECURSIVE DigitsToInt(_, _, _)
DigitsToInt(ds, sign, acc) ==
    IF ds = <<>> THEN acc
    ELSE DigitsToInt(Tail(ds), sign, acc * 10 + sign * DigitVal(ds[1]))

\* The conversions below are written as chains of operators, each handing what
\* it has read so far to the next, in the order strtol / strtod consume the text.

Unsigned(s) == IF s # <<>> /\ s[1] \in {"-", "+"} THEN Tail(s) ELSE s

IsNeg(s) == s # <<>> /\ s[1] = "-"

Sign(s) == IF IsNeg(s) THEN -1 ELSE 1

Conv(err, val) == [err |-> err, val |-> val]

\* ds: the digits read (leading zeros stripped); limit: the largest magnitude
StoIRange(kind, ds, sign, limit) ==
    IF ~DigitsLE(ds, limit) THEN Conv("out_of_range", Indeterminate(kind))
    ELSE Conv("none", DigitsToInt(ds, sign, 0))

\* s: the text after the sign; n: the length of its run of digits
StoIDigits(kind, s, n, sign) ==
    IF n = 0 THEN Conv("invalid_argument", Indeterminate(kind))
    ELSE StoIRange(kind, StripZeros(Take(s, n)), sign,
                   IF sign < 0 THEN MinDigits(kind) ELSE MaxDigits(kind))

StoINoSign(kind, s) == StoIDigits(kind, Unsigned(s), DigitRun(Unsigned(s)), 1)

StoISigned(kind, s) == StoIDigits(kind, Unsigned(s), DigitRun(Unsigned(s)), Sign(s))

\* std::stoi / std::stol / std::stoll (strtol, strtoll with base 10): leading
\* white space is skipped, one optional sign, then the longest run of digits;
\* whatever follows the digits is ignored (the idx argument is not passed).
StoI(kind, input) == StoISigned(kind, Drop(input, SpaceRun(input)))

\* s: the text after 'e' / 'E'; the exponent counts only if digits follow its sign
Exponent(s) ==
    IF DigitRun(Unsigned(s)) = 0 THEN 0
    ELSE DigitsToInt(StripZeros(Take(Unsigned(s), DigitRun(Unsigned(s)))), Sign(s), 0)

\* mant: the digits of the mantissa, nf of them after the point; s: what follows
StoFExp(kind, mant, nf, sign, s) ==
    IF mant = <<>> THEN Conv("invalid_argument", Indeterminate(kind))
    ELSE Conv("none",
              Dec(DigitsToInt(StripZeros(mant), sign, 0),
                  (IF s # <<>> /\ s[1] \in {"e", "E"} THEN Exponent(Tail(s)) ELSE 0) - nf))

\* int: the integer digits; s: what follows them; nf: the digits after a '.'
StoFFrac(kind, int, s, nf, sign) ==
    IF s # <<>> /\ s[1] = "."
    THEN StoFExp(kind, int \o SubSeq(s, 2, 1 + nf), nf, sign, Drop(s, 1 + nf))
    ELSE StoFExp(kind, int, 0, sign, s)

StoFInt(kind, s, ni, sign) ==
    StoFFrac(kind, Take(s, ni), Drop(s, ni),
             IF Len(s) > ni /\ s[ni + 1] = "." THEN DigitRun(Drop(s, ni + 1)) ELSE 0, sign)

StoFSigned(kind, s) == StoFInt(kind, Unsigned(s), DigitRun(Unsigned(s)), Sign(s))

\* std::stof / std::stod / std::stold on decimal text: white space, sign, digits
\* with an optional '.', and an exponent when 'e' / 'E' is followed by digits
\* (after an optional sign).  The value is kept exactly, as a decimal.
StoF(kind, input) == StoFSigned(kind, Drop(input, SpaceRun(input)))

\* in: the input folded to lower case
ParseBoolFolded(in) ==
    IF in = <<"y">> \/ in = <<"t", "r", "u", "e">> THEN Conv("none", TRUE)
    ELSE IF in = <<"n">> \/ in = <<"f", "a", "l", "s", "e">> THEN Conv("none", FALSE)
    ELSE Conv("invalid_argument", FALSE)

\* parseArg<bool>: fold to lower case, then compare with "y", "true", "n", "false"
ParseBool(input) == ParseBoolFolded(ToLower(input))

\* CliParser::parseArg<Argument>(input), input not null
parseArg(kind, input) ==
    IF kind \in IntKinds THEN StoI(kind, input)
    ELSE IF kind \in FloatKinds THEN StoF(kind, input)
    ELSE IF kind = "bool" THEN ParseBool(input)
    ELSE Conv("none", input)

\* What building a std::string from a null char* does.  It is undefined
\* behaviour: libstdc++ throws std::logic_error, other builds end the process.
NullStringOutcomes == {"logic_error", "crash"}

AssignInfoSetOnly(rec, r) ==
    IF r.err # "none" THEN [err |-> r.err, rec |-> rec]
    ELSE [err |-> "none", rec |-> [rec EXCEPT !.arg = r.val, !.info = SET_BY_USER]]

\* arg = parseArg<Argument>(input); info = info | SET_BY_USER.  r is what
\* parseArg did: nothing is assigned when it threw.
Assign(rec, r) ==
    IF r.err # "none" THEN [err |-> r.err, rec |-> rec]
    ELSE [err |-> "none",
          rec |-> [rec EXCEPT !.arg = r.val, !.info = BitOr(rec.info, SET_BY_USER)]]

\* Option<Argument>::setArgFromInput(input).  `ub` is the outcome taken when
\* input is the null pointer.
setArgFromInput(rec, input, ub) ==
    IF input.null THEN [err |-> ub, rec |-> rec]
    ELSE Assign(rec, parseArg(rec.kind, input.s))

-----------------------------------------------------------------------------
(* The registry.                                                           *)

hasOption(reg, opt) == opt \in DOMAIN reg

\* cliOptions.insert_or_assign(opt, rec)
insert_or_assign(reg, opt, rec) ==
    [k \in DOMAIN reg \cup {opt} |-> IF k = opt THEN rec ELSE reg[k]]

\* Option<Argument>(descr): a REQUIRED record, arg left uninitialised
OptionRequired(kind) == [kind |-> kind, info |-> REQUIRED, arg |-> Indeterminate(kind)]

\* Option<Argument>(descr, defaultValue): an OPTIONAL record
OptionWithDefault(kind, defaultValue) == [kind |-> kind, info |-> OPTIONAL, arg |-> defaultValue]

OptionBoolPlain(defaultValue, isAFlag) ==
    [kind |-> "bool", info |-> OPTIONAL, arg |-> defaultValue]

\* Option<bool>(descr, defaultValue, isAFlag)
OptionBool(defaultValue, isAFlag) ==
    [kind |-> "bool", info |-> IF isAFlag THEN FLAG ELSE OPTIONAL, arg |-> defaultValue]

preliminaryCheckNoFormat(reg, opt) ==
    IF hasOption(reg, opt) THEN "OptionRedefinition" ELSE "none"

preliminaryCheckFormatFirst(reg, opt) ==
    IF find_first_of(opt, {"=", " "}) # 0 THEN "BadOptionFormat"
    ELSE IF hasOption(reg, opt) THEN "OptionRedefinition"
    ELSE "none"

\* CliParser::_preliminaryCheckOptionForProblems(opt): the exception it throws
preliminaryCheckOptionForProblems(reg, opt) ==
    IF hasOption(reg, opt) THEN "OptionRedefinition"
    ELSE IF find_first_of(opt, {"=", " "}) # 0 THEN "BadOptionFormat"
    ELSE "none"

flagCheckNone(reg, opt) == "none"

\* the only test CliParser::flag makes before it inserts
flagCheck(reg, opt) ==
    IF hasOption(reg, opt) THEN "OptionRedefinition" ELSE "none"

missingReqOptAll(reg) == {k \in DOMAIN reg : ~isSetByUser(reg[k].info)}

missingReqOptInverted(reg) == {k \in DOMAIN reg : good(reg[k].info)}

\* the names of the records that are not good(), as parse collects them

missingReqOpt(reg) == {k \in DOMAIN reg : ~good(reg[k].info)}

\* the orders in which an iteration over the unordered_map can list a set of keys
Orders(S) ==
    {q \in [1..Cardinality(S) -> S] : \A a, b \in 1..Cardinality(S) : a # b => q[a] # q[b]}

getOptionErrFamilies(reg, opt, kind) ==
    IF ~hasOption(reg, opt) THEN "NoSuchOption"
    ELSE IF ~good(reg[opt].info) THEN "BadOptionAccess"
    ELSE IF /\ reg[opt].kind # kind
            /\ ~({reg[opt].kind, kind} \subseteq IntKinds)
            /\ ~({reg[opt].kind, kind} \subseteq FloatKinds)
    THEN "BadOptionCast"
    ELSE "none"

getOptionErrCastFirst(reg, opt, kind) ==
    IF ~hasOption(reg, opt) THEN "NoSuchOption"
    ELSE IF reg[opt].kind # kind THEN "BadOptionCast"
    ELSE IF ~good(reg[opt].info) THEN "BadOptionAccess"
    ELSE "none"

\* CliParser::getOption<Argument>(opt): the exception it throws, or "none"
getOptionErr(reg, opt, kind) ==
    IF ~hasOption(reg, opt) THEN "NoSuchOption"
    ELSE IF ~good(reg[opt].info) THEN "BadOptionAccess"
    ELSE IF reg[opt].kind # kind THEN "BadOptionCast"
    ELSE "none"

\* CliParser::getOption<Argument>(opt): the exception and, without one, the value
getOption(reg, opt, kind) ==
    [err |-> getOptionErr(reg, opt, kind),
     val |-> IF getOptionErr(reg, opt, kind) = "none" THEN reg[opt].arg
             ELSE Indeterminate(kind)]

-----------------------------------------------------------------------------
(* One iteration of parse's while loop, on token tok = argv[i]; next is    *)
(* argv[i + 1] (the null pointer when i + 1 = argc).  The result is the    *)
(* exception thrown (or "none"), the name it carries, the registry and the *)
(* value of i after the iteration.                                         *)

StepRollsBack(err, name, reg, at) ==
    [err |-> err, name |-> name, i |-> at,
     reg |-> IF err = "none" THEN reg
             ELSE [k \in DOMAIN reg |->
                      [reg[k] EXCEPT !.info = BitAnd(@, BitOr(BitOr(REQUIRED, OPTIONAL), FLAG_BIT))]]]

Step(err, name, reg, at) == [err |-> err, name |-> name, reg |-> reg, i |-> at]

StoredMarksOnError(reg, key, r, at) ==
    IF r.err # "none"
    THEN Step(r.err, <<>>, [reg EXCEPT ![key] = [@ EXCEPT !.info = BitOr(@, SET_BY_USER)]], at)
    ELSE Step("none", <<>>, [reg EXCEPT ![key] = r.rec], at)

\* the record at key after setArgFromInput: r is what setArgFromInput did
Stored(reg, key, r, at) ==
    IF r.err # "none" THEN Step(r.err, <<>>, reg, at)
    ELSE Step("none", <<>>, [reg EXCEPT ![key] = r.rec], at)

FlagSetValueOnly(reg, key) == [reg EXCEPT ![key] = [@ EXCEPT !.arg = TRUE]]

FlagSetEvery(reg, key) ==
    [k \in DOMAIN reg |->
        IF isFlag(reg[k].info)
        THEN [reg[k] EXCEPT !.arg = TRUE, !.info = FLAG_OVERRIDEN_BY_USER]
        ELSE reg[k]]

\* it->second->arg = true; it->second->info = FLAG_OVERRIDEN_BY_USER
FlagSet(reg, key) ==
    [reg EXCEPT ![key] = [@ EXCEPT !.arg = TRUE, !.info = FLAG_OVERRIDEN_BY_USER]]

\* the token holds an '=': key is the text before it, value the text after it
InlineTokenAssignsFlag(reg, key, value, at, ign) ==
    IF ~hasOption(reg, key)
    THEN IF ~ign THEN Step("NoSuchOption", key, reg, at) ELSE Step("none", <<>>, reg, at + 1)
    ELSE Stored(reg, key, setArgFromInput(reg[key], Ptr(value), "logic_error"), at + 1)

InlineTokenSkipsTwo(reg, key, value, at, ign) ==
    IF ~hasOption(reg, key)
    THEN IF ~ign THEN Step("NoSuchOption", key, reg, at) ELSE Step("none", <<>>, reg, at + 2)
    ELSE IF isFlag(reg[key].info)
    THEN Step("invalid_argument", <<>>, reg, at)
    ELSE Stored(reg, key, setArgFromInput(reg[key], Ptr(value), "logic_error"), at + 1)

InlineTokenWholeName(reg, key, value, at, ign) ==
    IF ~hasOption(reg, key)
    THEN IF ~ign THEN Step("NoSuchOption", key \o <<"=">> \o value, reg, at)
         ELSE Step("none", <<>>, reg, at + 1)
    ELSE IF isFlag(reg[key].info)
    THEN Step("invalid_argument", <<>>, reg, at)
    ELSE Stored(reg, key, setArgFromInput(reg[key], Ptr(value), "logic_error"), at + 1)

InlineTokenKeepsFirst(reg, key, value, at, ign) ==
    IF ~hasOption(reg, key)
    THEN IF ~ign THEN Step("NoSuchOption", key, reg, at) ELSE Step("none", <<>>, reg, at + 1)
    ELSE IF isFlag(reg[key].info)
    THEN Step("invalid_argument", <<>>, reg, at)
    ELSE IF isSetByUser(reg[key].info)
    THEN Step("none", <<>>, reg, at + 1)
    ELSE Stored(reg, key, setArgFromInput(reg[key], Ptr(value), "logic_error"), at + 1)

InlineToken(reg, key, value, at, ign) ==
    IF ~hasOption(reg, key)
    THEN IF ~ign THEN Step("NoSuchOption", key, reg, at) ELSE Step("none", <<>>, reg, at + 1)
    ELSE IF isFlag(reg[key].info)
    THEN Step("invalid_argument", <<>>, reg, at)
    ELSE Stored(reg, key, setArgFromInput(reg[key], Ptr(value), "logic_error"), at + 1)

\* the token tok holds no '='; next is argv[i + 1]
BareTokenFlagTakesValue(reg, tok, next, at, ign, ub) ==
    IF ~hasOption(reg, tok)
    THEN IF ~ign THEN Step("NoSuchOption", tok, reg, at + 1) ELSE Step("none", <<>>, reg, at + 1)
    ELSE IF isFlag(reg[tok].info)
    THEN Step("none", <<>>, FlagSet(reg, tok), at + 2)
    ELSE Stored(reg, tok, setArgFromInput(reg[tok], next, ub), at + 2)

BareTokenSkipsTwo(reg, tok, next, at, ign, ub) ==
    IF ~hasOption(reg, tok)
    THEN IF ~ign THEN Step("NoSuchOption", tok, reg, at + 1) ELSE Step("none", <<>>, reg, at + 2)
    ELSE IF isFlag(reg[tok].info)
    THEN Step("none", <<>>, FlagSet(reg, tok), at + 1)
    ELSE Stored(reg, tok, setArgFromInput(reg[tok], next, ub), at + 2)

BareTokenValueStays(reg, tok, next, at, ign, ub) ==
    IF ~hasOption(reg, tok)
    THEN IF ~ign THEN Step("NoSuchOption", tok, reg, at + 1) ELSE Step("none", <<>>, reg, at + 1)
    ELSE IF isFlag(reg[tok].info)
    THEN Step("none", <<>>, FlagSet(reg, tok), at + 1)
    ELSE Stored(reg, tok, setArgFromInput(reg[tok], next, ub), at + 1)

BareTokenGuardsValue(reg, tok, next, at, ign, ub) ==
    IF ~hasOption(reg, tok)
    THEN IF ~ign THEN Step("NoSuchOption", tok, reg, at + 1) ELSE Step("none", <<>>, reg, at + 1)
    ELSE IF isFlag(reg[tok].info)
    THEN Step("none", <<>>, FlagSet(reg, tok), at + 1)
    ELSE IF ~next.null /\ hasOption(reg, next.s)
    THEN Step("invalid_argument", <<>>, reg, at + 1)
    ELSE Stored(reg, tok, setArgFromInput(reg[tok], next, ub), at + 2)

BareToken(reg, tok, next, at, ign, ub) ==
    IF ~hasOption(reg, tok)
    THEN IF ~ign THEN Step("NoSuchOption", tok, reg, at + 1) ELSE Step("none", <<>>, reg, at + 1)
    ELSE IF isFlag(reg[tok].info)
    THEN Step("none", <<>>, FlagSet(reg, tok), at + 1)
    ELSE Stored(reg, tok, setArgFromInput(reg[tok], next, ub), at + 2)

\* argv[k], k in 0..argc, as the C++ sees it (the model's argv is 1-based)
ArgAt(args, k) == IF k < Len(args) THEN Ptr(args[k + 1]) ELSE NullPtr

\* tok is argv[i], pos the result of view.find_first_of('=')
Dispatch(reg, args, tok, pos, at, ign, ub) ==
    IF pos # 0 THEN InlineToken(reg, Take(tok, pos - 1), Drop(tok, pos), at, ign)
    ELSE BareToken(reg, tok, ArgAt(args, at + 1), at, ign, ub)

ScanTokenLastEq(reg, args, at, ign, ub) ==
    Dispatch(reg, args, args[at + 1],
             IF \E p \in 1..Len(args[at + 1]) : args[at + 1][p] = "="
             THEN CHOOSE p \in 1..Len(args[at + 1]) :
                     /\ args[at + 1][p] = "="
                     /\ \A r \in (p + 1)..Len(args[at + 1]) : args[at + 1][r] # "="
             ELSE 0,
             at, ign, ub)

ScanToken(reg, args, at, ign, ub) ==
    Dispatch(reg, args, args[at + 1], find_first_of(args[at + 1], {"="}), at, ign, ub)

-----------------------------------------------------------------------------
(* The state machine.  A call moves pc from "idle" to "done" (parse passes *)
(* through "scan", one step per iteration of its loop); Return hands       *)
(* control back to the caller, whether the call returned or threw.         *)

\* ret: the operation, the name the call was given (or, for parse, the name
\* the exception carries), the exception ("none": normal return), the name
\* list of MissingRequiredOptionsError, and the index of the token at which
\* parse threw
Ret(op, name, err, names, at) ==
    [op |-> op, name |-> name, err |-> err, names |-> names, at |-> at]

NoRet == Ret("none", <<>>, "none", <<>>, 0)

Init ==
    /\ cliOptions = <<>>
    /\ executablePath = <<>>
    /\ pc = "idle"
    /\ argv = <<>>
    /\ ignoreUnknownOptions = FALSE
    /\ suppressMissingRequiredOptionsError = FALSE
    /\ i = 0
    /\ ret = NoRet

\* CliParser::option<Argument>(opt, description)
Option(opt, kind) ==
    /\ pc = "idle"
    /\ LET e == preliminaryCheckOptionForProblems(cliOptions, opt)
       IN  /\ cliOptions' = IF e = "none"
                            THEN insert_or_assign(cliOptions, opt, OptionRequired(kind))
                            ELSE cliOptions
           /\ ret' = Ret("option", opt, e, <<>>, 0)
    /\ pc' = "done"
    /\ UNCHANGED <<executablePath, argv, ignoreUnknownOptions,
                   suppressMissingRequiredOptionsError, i>>

\* CliParser::option(opt, description, defaultValue)
OptionDefault(opt, kind, defaultValue) ==
    /\ pc = "idle"
    /\ LET e == preliminaryCheckOptionForProblems(cliOptions, opt)
       IN  /\ cliOptions' = IF e = "none"
                            THEN insert_or_assign(cliOptions, opt,
                                                  OptionWithDefault(kind, defaultValue))
                            ELSE cliOptions
           /\ ret' = Ret("optionDefault", opt, e, <<>>, 0)
    /\ pc' = "done"
    /\ UNCHANGED <<executablePath, argv, ignoreUnknownOptions,
                   suppressMissingRequiredOptionsError, i>>

\* CliParser::flag(opt, description)
Flag(opt) ==
    /\ pc = "idle"
    /\ LET e == flagCheck(cliOptions, opt)
       IN  /\ cliOptions' = IF e = "none"
                            THEN insert_or_assign(cliOptions, opt, OptionBool(FALSE, TRUE))
                            ELSE cliOptions
           /\ ret' = Ret("flag", opt, e, <<>>, 0)
    /\ pc' = "done"
    /\ UNCHANGED <<executablePath, argv, ignoreUnknownOptions,
                   suppressMissingRequiredOptionsError, i>>

ParseNoCornerCase(args, ign, sup) ==
    /\ pc = "idle"
    /\ argv' = args
    /\ ignoreUnknownOptions' = ign
    /\ suppressMissingRequiredOptionsError' = sup
    /\ ret' = Ret("parse", <<>>, "none", <<>>, 0)
    /\ pc' = "scan"
    /\ i' = 1
    /\ executablePath' = IF Len(args) = 0 THEN <<>> ELSE args[1]
    /\ UNCHANGED cliOptions

ParseFromZero(args, ign, sup) ==
    /\ pc = "idle"
    /\ argv' = args
    /\ ignoreUnknownOptions' = ign
    /\ suppressMissingRequiredOptionsError' = sup
    /\ ret' = Ret("parse", <<>>, "none", <<>>, 0)
    /\ IF Len(args) = 0
       THEN /\ pc' = "done"
            /\ i' = 0
            /\ UNCHANGED executablePath
       ELSE /\ pc' = "scan"
            /\ i' = 0
            /\ executablePath' = args[1]
    /\ UNCHANGED cliOptions

\* CliParser::parse(argc, argv, ign, sup) up to its while loop; argc = Len(args)
Parse(args, ign, sup) ==
    /\ pc = "idle"
    /\ argv' = args
    /\ ignoreUnknownOptions' = ign
    /\ suppressMissingRequiredOptionsError' = sup
    /\ ret' = Ret("parse", <<>>, "none", <<>>, 0)
    /\ IF Len(args) = 0
       THEN /\ pc' = "done"
            /\ i' = 0
            /\ UNCHANGED executablePath
       ELSE /\ pc' = "scan"
            /\ i' = 1
            /\ executablePath' = args[1]
    /\ UNCHANGED cliOptions

\* the effect of one iteration: st is what ScanToken computed
Iterate(st) ==
    /\ cliOptions' = st.reg
    /\ IF st.err = "none"
       THEN /\ pc' = "scan"
            /\ i' = st.i
            /\ UNCHANGED ret
       ELSE /\ pc' = IF st.err = "crash" THEN "crashed" ELSE "done"
            /\ i' = i
            /\ ret' = Ret("parse", st.name, st.err, <<>>, i)

\* one iteration of while (i < argc)
ScanStep ==
    /\ pc = "scan"
    /\ i < Len(argv)
    /\ \E ub \in NullStringOutcomes :
          Iterate(ScanToken(cliOptions, argv, i, ignoreUnknownOptions, ub))
    /\ UNCHANGED <<executablePath, argv, ignoreUnknownOptions,
                   suppressMissingRequiredOptionsError>>

CompleteAlwaysChecks(missing) ==
    IF missing # {}
    THEN \E q \in Orders(missing) : ret' = Ret("parse", <<>>, "MissingRequiredOptions", q, i)
    ELSE ret' = Ret("parse", <<>>, "none", <<>>, i)

\* throw MissingRequiredOptionsError(missingReqOpt) unless the vector is empty
Complete(missing) ==
    IF ~suppressMissingRequiredOptionsError /\ missing # {}
    THEN \E q \in Orders(missing) : ret' = Ret("parse", <<>>, "MissingRequiredOptions", q, i)
    ELSE ret' = Ret("parse", <<>>, "none", <<>>, i)

MissingCheckEarly ==
    /\ pc = "scan"
    /\ Complete(missingReqOpt(cliOptions))
    /\ pc' = "done"
    /\ UNCHANGED <<cliOptions, executablePath, argv, ignoreUnknownOptions,
                   suppressMissingRequiredOptionsError, i>>

\* the check that follows the loop
MissingCheck ==
    /\ pc = "scan"
    /\ i >= Len(argv)
    /\ Complete(missingReqOpt(cliOptions))
    /\ pc' = "done"
    /\ UNCHANGED <<cliOptions, executablePath, argv, ignoreUnknownOptions,
                   suppressMissingRequiredOptionsError, i>>

-----------------------------------------------------------------------------
(* The queries.  They are const member functions: they read the registry   *)
(* and return a value or throw.                                            *)

isOptionOptionalNoThrow(reg, opt) ==
    Conv("none", hasOption(reg, opt) /\ isOptional(reg[opt].info))

\* CliParser::isOptionOptional(opt)
isOptionOptional(reg, opt) ==
    IF ~hasOption(reg, opt) THEN Conv("NoSuchOption", FALSE)
    ELSE Conv("none", isOptional(reg[opt].info))

\* CliParser::isOptionSetByUser(opt)
isOptionSetByUser(reg, opt) ==
    IF ~hasOption(reg, opt) THEN Conv("NoSuchOption", FALSE)
    ELSE Conv("none", isSetByUser(reg[opt].info))

\* CliParser::isOptionFlag(opt)
isOptionFlag(reg, opt) ==
    IF ~hasOption(reg, opt) THEN Conv("NoSuchOption", FALSE)
    ELSE Conv("none", isFlag(reg[opt].info))

\* CliParser::getAllPossibleOptions(): the keys, in the order of the map's iteration
getAllPossibleOptions(reg) == Orders(DOMAIN reg)

\* what a query hands back: the exception or the value, and for
\* getAllPossibleOptions the list of names
Answer(op, name, r, names) ==
    [op |-> op, name |-> name, err |-> r.err, names |-> names, at |-> 0, val |-> r.val]

\* a query returns or throws; nothing else changes
Answered(a) ==
    /\ pc = "idle"
    /\ pc' = "done"
    /\ ret' = a
    /\ UNCHANGED <<cliOptions, executablePath, argv, ignoreUnknownOptions,
                   suppressMissingRequiredOptionsError, i>>

GetOption(opt, kind) == Answered(Answer("getOption", opt, getOption(cliOptions, opt, kind), <<>>))

HasOption(opt) == Answered(Answer("hasOption", opt, Conv("none", hasOption(cliOptions, opt)), <<>>))

IsOptionOptional(opt) ==
    Answered(Answer("isOptionOptional", opt, isOptionOptional(cliOptions, opt), <<>>))

IsOptionSetByUser(opt) ==
    Answered(Answer("isOptionSetByUser", opt, isOptionSetByUser(cliOptions, opt), <<>>))

IsOptionFlag(opt) == Answered(Answer("isOptionFlag", opt, isOptionFlag(cliOptions, opt), <<>>))

GetAllPossibleOptions ==
    \E q \in getAllPossibleOptions(cliOptions) :
        Answered(Answer("getAllPossibleOptions", <<>>, Conv("none", Len(q)), q))

-----------------------------------------------------------------------------
(* The end of a call.                                                      *)

\* the call is over: its parameters and locals are gone
Return ==
    /\ pc = "done"
    /\ pc' = "idle"
    /\ argv' = <<>>
    /\ ignoreUnknownOptions' = FALSE
    /\ suppressMissingRequiredOptionsError' = FALSE
    /\ i' = 0
    /\ ret' = NoRet
    /\ UNCHANGED <<cliOptions, executablePath>>

-----------------------------------------------------------------------------
(* The general specification: any interleaving of declarations and parse   *)
(* calls, over a small vocabulary.                                         *)

nN == <<"-", "n">>
nH == <<"-", "h">>
nBadEq == <<"-", "a", "=", "b">>
nBadSp == <<"-", "a", " ", "b">>
tProg == <<"p", "r", "o", "g">>
tHeq1 == <<"-", "h", "=", "1">>
t1 == <<"1">>

Names == {nN, nH, nBadEq, nBadSp}

DeclKinds == {"int", "bool", "string"}

Defaults(kind) ==
    IF kind \in IntKinds THEN {7}
    ELSE IF kind \in FloatKinds THEN {Dec(322, -2)}
    ELSE IF kind = "bool" THEN {FALSE}
    ELSE {<<"g">>}

Argv0s == {tProg}

Tokens == {nN, nH, tHeq1, t1}

RECURSIVE SeqsUpTo(_, _)
SeqsUpTo(S, n) ==
    IF n = 0 THEN {<<>>}
    ELSE LET shorter == SeqsUpTo(S, n - 1)
         IN  shorter \cup {Append(q, t) : q \in {r \in shorter : Len(r) = n - 1}, t \in S}

\* the argument arrays of at most n tokens: a program path, then tokens
ArgLists(first, rest, n) ==
    {<<>>} \cup {<<a>> \o q : a \in first, q \in SeqsUpTo(rest, n - 1)}

GeneralArgs == ArgLists(Argv0s, Tokens, MaxArgc)

\* A declaration that inserts is admitted while the registry holds fewer than
\* MaxOptions records and its kind is one of kinds; a re-declaration is always
\* admitted, with every kind.
Admit(opt, kind, kinds) ==
    \/ opt \in DOMAIN cliOptions
    \/ kind \in kinds /\ Cardinality(DOMAIN cliOptions) < MaxOptions

\* the calls a program can make, over a vocabulary
Calls(names, kinds, argLists) ==
    \/ \E opt \in names, kind \in Kinds : Admit(opt, kind, kinds) /\ Option(opt, kind)
    \/ \E opt \in names, kind \in Kinds : \E d \in Defaults(kind) :
          Admit(opt, kind, kinds) /\ OptionDefault(opt, kind, d)
    \/ \E opt \in names : Admit(opt, "bool", {"bool"}) /\ Flag(opt)
    \/ \E args \in argLists, ign \in BOOLEAN, sup \in BOOLEAN : Parse(args, ign, sup)

Next ==
    \/ Calls(Names, DeclKinds, GeneralArgs)
    \/ ScanStep
    \/ MissingCheck
    \/ Return

Spec == Init /\ [][Next]_vars

-----------------------------------------------------------------------------
(* The same calls over a vocabulary of tokens that hold an '='.            *)

tHeq == <<"-", "h", "=">>
tHeqTrue == <<"-", "h", "=", "t", "r", "u", "e">>
tHeqFalse == <<"-", "h", "=", "f", "a", "l", "s", "e">>

tBadEqEq1 == <<"-", "a", "=", "b", "=", "1">>

InlineTokens == {nH, tHeq, tHeqTrue, tHeqFalse, tBadEqEq1}

InlineArgs == ArgLists(Argv0s, InlineTokens, MaxArgc)

NextInline ==
    \/ Calls({nH, nN, nBadEq}, DeclKinds, InlineArgs)
    \/ ScanStep
    \/ MissingCheck
    \/ Return

SpecInline == Init /\ [][NextInline]_vars

-----------------------------------------------------------------------------
(* The same calls over a vocabulary of bare tokens: every name that can be *)
(* declared, well formed or not.                                           *)

FlagArgs == ArgLists(Argv0s, Names, MaxArgc)

NextFlags ==
    \/ Calls(Names, DeclKinds, FlagArgs)
    \/ ScanStep
    \/ MissingCheck
    \/ Return

SpecFlags == Init /\ [][NextFlags]_vars

-----------------------------------------------------------------------------
(* A program like test/test.cpp: it declares a required int -n, an         *)
(* optional float -q (default 3.22) and the flag --help, in this order,    *)
(* and then calls parse once on its argv.                                  *)

\* longest argument array of the scenario
ScenarioArgc == 4

nQ == <<"-", "q">>
nHelp == <<"-", "-", "h", "e", "l", "p">>
t32 == <<"3", "2">>

ScenarioArgs == ArgLists({tProg}, {nN, nQ, nHelp, t32}, ScenarioArgc)

NextScenario ==
    \/ DOMAIN cliOptions = {} /\ Option(nN, "int")
    \/ DOMAIN cliOptions = {nN} /\ OptionDefault(nQ, "float", Dec(322, -2))
    \/ DOMAIN cliOptions = {nN, nQ} /\ Flag(nHelp)
    \/ /\ DOMAIN cliOptions = {nN, nQ, nHelp}
       /\ executablePath = <<>>
       /\ \E args \in ScenarioArgs, ign \in BOOLEAN, sup \in BOOLEAN : Parse(args, ign, sup)
    \/ ScanStep
    \/ MissingCheck
    \/ Return

SpecScenario == Init /\ [][NextScenario]_vars

-----------------------------------------------------------------------------
(* Values and their texts.  textOf writes a value of a kind as the text a  *)
(* user would type for it: a decimal integer with a '-' for negatives, a   *)
(* decimal fraction for the floating-point kinds, the text itself for a    *)
(* string.                                                                 *)

\* the decimal digits of a natural number
RECURSIVE NatDigits(_)
NatDigits(n) ==
    IF n < 10 THEN <<Digits[n + 1]>> ELSE Append(NatDigits(n \div 10), Digits[(n % 10) + 1])

Abs(n) == IF n < 0 THEN -n ELSE n

Zeros(n) == [p \in 1..n |-> "0"]

\* ds: the digits of the mantissa, e its decimal exponent
FractionText(ds, e) ==
    IF e >= 0 THEN ds \o Zeros(e)
    ELSE IF Len(ds) > -e THEN Take(ds, Len(ds) + e) \o <<".">> \o Drop(ds, Len(ds) + e)
    ELSE <<"0", ".">> \o Zeros(-e - Len(ds)) \o ds

SignText(n) == IF n < 0 THEN <<"-">> ELSE <<>>

textOf(kind, v) ==
    IF kind \in IntKinds THEN SignText(v) \o NatDigits(Abs(v))
    ELSE IF kind \in FloatKinds THEN SignText(v.m) \o FractionText(NatDigits(Abs(v.m)), v.e)
    ELSE v

-----------------------------------------------------------------------------
(* One option -o of any of the eight kinds, parsed from the texts of a few *)
(* values of every kind.                                                   *)

nO == <<"-", "o">>
tAeqB == <<"a", "=", "b">>

\* the values of a kind that the argument arrays spell out
Values(kind) ==
    IF kind \in IntKinds THEN {-5, 0, 12, 2147483647}
    ELSE IF kind \in FloatKinds THEN {Dec(0, 0), Dec(15, -1), Dec(-25, -2)}
    ELSE IF kind = "bool" THEN {TRUE, FALSE}
    ELSE {tAeqB, nO}

\* spellings of the two bool values
tYUpper == <<"Y">>
tTrue == <<"t", "r", "u", "e">>
tN == <<"n">>
tFalseMixed == <<"F", "a", "l", "s", "e">>

ValueTokens ==
    UNION {{textOf(kind, v) : v \in Values(kind)} : kind \in Kinds \ {"bool"}}
        \cup {tYUpper, tTrue, tN, tFalseMixed}

\* the argument arrays of at most MaxArgc tokens that give -o first
ValueArgs ==
    {<<>>, <<tProg>>} \cup {<<tProg, nO>> \o q : q \in SeqsUpTo(ValueTokens, MaxArgc - 2)}

NextValues ==
    \/ Calls({nO}, Kinds, ValueArgs)
    \/ ScanStep
    \/ MissingCheck
    \/ Return

SpecValues == Init /\ [][NextValues]_vars

-----------------------------------------------------------------------------
(* One option -o, a bool or an int, parsed from texts that parseArg<bool>  *)
(* accepts and texts that it rejects.                                      *)

tY == <<"y">>
tTrueUpper == <<"T", "R", "U", "E">>
tNUpper == <<"N">>
tEmpty == <<>>
tYes == <<"y", "e", "s">>
tNo == <<"n", "o">>
t0 == <<"0">>

tOeqY == <<"-", "o", "=", "y">>

BoolTokens == {nO, tOeqY, tY, tTrueUpper, tNUpper, tFalseMixed, tEmpty, tYes, tNo, t1, t0}

BoolArgs == ArgLists(Argv0s, BoolTokens, MaxArgc)

NextBool ==
    \/ Calls({nO}, {"bool", "int"}, BoolArgs)
    \/ ScanStep
    \/ MissingCheck
    \/ Return

SpecBool == Init /\ [][NextBool]_vars

-----------------------------------------------------------------------------
(* One option -o of an integer kind, parsed from texts that are integers   *)
(* and texts that are not.                                                 *)

t12 == <<"1", "2">>
tAbc == <<"a", "b", "c">>
t12abc == <<"1", "2", "a", "b", "c">>
\* a number above LLONG_MAX
tHuge == [p \in 1..20 |-> "9"]

IntTokens == {nO, t12, textOf("int", -5), tAbc, tEmpty, t12abc, tHuge}

IntArgs == ArgLists(Argv0s, IntTokens, MaxArgc)

NextInts ==
    \/ Calls({nO}, IntKinds, IntArgs)
    \/ ScanStep
    \/ MissingCheck
    \/ Return

SpecInts == Init /\ [][NextInts]_vars

-----------------------------------------------------------------------------
(* Argument arrays whose token 0 is a program path, a declared name or a   *)
(* text with an '='.                                                       *)

PathArgs == ArgLists({tProg, nH, tHeq1}, {nH, t1}, MaxArgc)

NextPath ==
    \/ Calls({nH, nN}, {"bool", "string"}, PathArgs)
    \/ ScanStep
    \/ MissingCheck
    \/ Return

SpecPath == Init /\ [][NextPath]_vars

-----------------------------------------------------------------------------
(* Declarations, parse calls and queries in any order.                     *)

QueryNames == {nN, nH}

QueryArgs == ArgLists(Argv0s, {nN, nH, t1}, MaxArgc)

Queries(names) ==
    \/ \E opt \in names, kind \in Kinds : GetOption(opt, kind)
    \/ \E opt \in names : HasOption(opt)
    \/ \E opt \in names : IsOptionOptional(opt)
    \/ \E opt \in names : IsOptionSetByUser(opt)
    \/ \E opt \in names : IsOptionFlag(opt)
    \/ GetAllPossibleOptions

NextQueries ==
    \/ Calls(QueryNames, {"int", "bool"}, QueryArgs)
    \/ Queries(QueryNames)
    \/ ScanStep
    \/ MissingCheck
    \/ Return

SpecQueries == Init /\ [][NextQueries]_vars

-----------------------------------------------------------------------------
(* One option -n, given its value inline (after an '=') or as the next     *)
(* token.                                                                  *)

tNeq == <<"-", "n", "=">>
tNeq12 == <<"-", "n", "=", "1", "2">>
tNeqAeqB == <<"-", "n", "=", "a", "=", "b">>

SplitTokens == {nN, tNeq, tNeq12, tNeqAeqB, t1}

SplitArgs == ArgLists(Argv0s, SplitTokens, MaxArgc)

NextSplit ==
    \/ Calls({nN}, DeclKinds, SplitArgs)
    \/ ScanStep
    \/ MissingCheck
    \/ Return

SpecSplit == Init /\ [][NextSplit]_vars

-----------------------------------------------------------------------------
(* Vocabulary of the properties.                                           *)

\* two records agree in kind, classification, setByUser bit and value
SameRecord(a, b) == a.kind = b.kind /\ a.info = b.info /\ a.arg = b.arg

\* two registries hold the same names with the same records
SameRegistry(r1, r2) ==
    /\ DOMAIN r1 = DOMAIN r2
    /\ \A k \in DOMAIN r1 : SameRecord(r1[k], r2[k])

HasEq(tok) == \E p \in 1..Len(tok) : tok[p] = "="

\* the key of a token in option-key position: the whole token, or the text
\* before its first '='
KeyOf(tok) ==
    IF HasEq(tok)
    THEN Take(tok, (CHOOSE p \in 1..Len(tok) :
                       tok[p] = "=" /\ \A r \in 1..(p - 1) : tok[r] # "=") - 1)
    ELSE tok

IsFlagRecord(rec) == rec.info \in {FLAG, FLAG_OVERRIDEN_BY_USER}

\* the scan is about to read the token argv[i] (argv[i + 1] in the model)
AtToken == pc = "scan" /\ i < Len(argv)

CurrentToken == argv[i + 1]

\* a call of parse is over, by return or by exception
ParseOver == pc = "done" /\ ret.op = "parse"

DeclareOps == {"option", "optionDefault", "flag"}

\* the indices (0-based, as in argv) of the tokens in option-key position: a
\* bare token that names a non-Flag record takes the token after it as its value
RECURSIVE KeyIndices(_, _, _)
KeyIndices(reg, args, k) ==
    IF k >= Len(args) THEN {}
    ELSE {k} \cup KeyIndices(reg, args,
                  IF /\ ~HasEq(args[k + 1])
                     /\ args[k + 1] \in DOMAIN reg
                     /\ ~IsFlagRecord(reg[args[k + 1]])
                  THEN k + 2 ELSE k + 1)

\* the Required records that have not been supplied
RequiredUnset(reg) == {k \in DOMAIN reg : reg[k].info = REQUIRED}

Range(q) == {q[p] : p \in 1..Len(q)}

-----------------------------------------------------------------------------
(* Properties.                                                             *)

\* C1: a declaration call (option with or without a default, or flag; any
\* kind) whose name is already in the registry throws OptionRedefinitionError
\* and leaves the registry as it was: same names, and every record keeps its
\* kind, classification, setByUser bit and value.
C1_RedeclarationRejected ==
    [][(/\ pc = "idle"
        /\ pc' = "done"
        /\ ret'.op \in DeclareOps
        /\ ret'.name \in DOMAIN cliOptions)
       => (ret'.err = "OptionRedefinition" /\ SameRegistry(cliOptions', cliOptions))]_vars

\* C1 witness: flag() was called with the name of a set, non-Flag record and
\* was rejected
C1_Witness ==
    /\ pc = "done"
    /\ ret.op = "flag"
    /\ ret.err = "OptionRedefinition"
    /\ ret.name \in DOMAIN cliOptions
    /\ ~IsFlagRecord(cliOptions[ret.name])
    /\ cliOptions[ret.name].info = REQUIRED_PROVIDED_BY_USER

\* C2 (as claimed): no declaration inserts a name that holds '=' or ' ', so
\* no key of the registry holds one.
C2_NoKeyWithEqOrSpace ==
    \A k \in DOMAIN cliOptions : \A p \in 1..Len(k) : k[p] \notin {"=", " "}

\* C3: with -n (required int), -q (optional float, default 3.22) and the flag
\* --help declared, parse of prog -n 32 --help with the default policy flags
\* returns normally; then get<int>(-n) = 32, get<bool>(--help) = true,
\* get<float>(-q) = 3.22 and -q is not set by the user.
C3_Scenario ==
    (/\ ParseOver
     /\ argv = <<tProg, nN, t32, nHelp>>
     /\ ~ignoreUnknownOptions
     /\ ~suppressMissingRequiredOptionsError)
    => /\ ret.err = "none"
       /\ getOption(cliOptions, nN, "int") = [err |-> "none", val |-> 32]
       /\ getOption(cliOptions, nHelp, "bool") = [err |-> "none", val |-> TRUE]
       /\ getOption(cliOptions, nQ, "float") = [err |-> "none", val |-> Dec(322, -2)]
       /\ ~isSetByUser(cliOptions[nQ].info)

\* C3 witness: the scenario's parse call is over
C3_Witness ==
    /\ ParseOver
    /\ argv = <<tProg, nN, t32, nHelp>>
    /\ ~ignoreUnknownOptions
    /\ ~suppressMissingRequiredOptionsError
    /\ DOMAIN cliOptions = {nN, nQ, nHelp}

\* C4 (as claimed): after a parse that returns normally on an argument list
\* holding a flag's bare name at an index >= 1, the flag is true and set.
C4_AnyIndex ==
    (ParseOver /\ ret.err = "none")
    => \A f \in DOMAIN cliOptions :
          (IsFlagRecord(cliOptions[f]) /\ \E k \in 1..(Len(argv) - 1) : argv[k + 1] = f)
          => (cliOptions[f].arg = TRUE /\ cliOptions[f].info = FLAG_OVERRIDEN_BY_USER)

\* a Flag record changes only in the iteration that reads its bare name as
\* argv[i], and then to true and set; a new Flag record is false and not set
FlagChange(f) ==
    /\ (f \in DOMAIN cliOptions /\ IsFlagRecord(cliOptions[f])
        /\ ~SameRecord(cliOptions'[f], cliOptions[f]))
       => (/\ AtToken
           /\ CurrentToken = f
           /\ cliOptions'[f].arg = TRUE
           /\ cliOptions'[f].info = FLAG_OVERRIDEN_BY_USER)
    /\ (f \notin DOMAIN cliOptions /\ IsFlagRecord(cliOptions'[f]))
       => (cliOptions'[f].arg = FALSE /\ cliOptions'[f].info = FLAG)

\* a normal return of parse leaves every Flag whose name is a token without
\* '=' in option-key position set to true and marked setByUser
FlagsAtKeysSet ==
    (ParseOver /\ ret.err = "none")
    => \A f \in DOMAIN cliOptions :
          (/\ IsFlagRecord(cliOptions[f])
           /\ ~HasEq(f)
           /\ \E k \in KeyIndices(cliOptions, argv, 1) : argv[k + 1] = f)
          => (cliOptions[f].arg = TRUE /\ cliOptions[f].info = FLAG_OVERRIDEN_BY_USER)

\* C4 (amended): a Flag record is false and not set until an iteration of the
\* scan reads its bare name in option-key position; after a parse that
\* returns normally on an argument list in which a token without '=' in
\* option-key position (not the value of the non-Flag option before it) is
\* the flag's name, the flag is true and set.
C4_FlagSetAtKeyPosition ==
    [][/\ \A f \in DOMAIN cliOptions' : FlagChange(f)
       /\ FlagsAtKeysSet']_vars

\* C4 witness: parse returned normally; a flag's bare name was the second key
C4_Witness ==
    /\ ParseOver
    /\ ret.err = "none"
    /\ Len(argv) = 3
    /\ KeyIndices(cliOptions, argv, 1) = {1, 2}
    /\ argv[3] \in DOMAIN cliOptions
    /\ IsFlagRecord(cliOptions[argv[3]])
    /\ cliOptions[argv[3]].arg = TRUE
    /\ argv[2] # argv[3]

\* s starts with the text p
StartsWith(s, p) == Len(s) >= Len(p) /\ Take(s, Len(p)) = p

\* C5 (as claimed): when the scan reads a token f=v, f the name of a Flag
\* record and v any text, parse throws std::invalid_argument at that token
\* and no record changes.
C5_FlagAssignRejected ==
    [][(/\ AtToken
        /\ \E f \in DOMAIN cliOptions :
              IsFlagRecord(cliOptions[f]) /\ StartsWith(CurrentToken, f \o <<"=">>))
       => (/\ pc' = "done"
           /\ ret'.err = "invalid_argument"
           /\ ret'.at = i
           /\ SameRegistry(cliOptions', cliOptions))]_vars

\* What holds of the code: when the scan reads a token whose key (the text
\* before its first '=') names a Flag record, whatever follows the '=', parse
\* throws std::invalid_argument at that token and no record changes.
FlagKeyAssignRejected ==
    [][(/\ AtToken
        /\ HasEq(CurrentToken)
        /\ KeyOf(CurrentToken) \in DOMAIN cliOptions
        /\ IsFlagRecord(cliOptions[KeyOf(CurrentToken)]))
       => (/\ pc' = "done"
           /\ ret'.err = "invalid_argument"
           /\ ret'.at = i
           /\ SameRegistry(cliOptions', cliOptions))]_vars

\* parse threw std::invalid_argument at the token -h= (empty text after the
\* '='), its second token, -h being a flag
FlagKeyAssignRejectedWitness ==
    /\ ParseOver
    /\ ret.err = "invalid_argument"
    /\ ret.at = 2
    /\ argv[3] = tHeq
    /\ nH \in DOMAIN cliOptions
    /\ IsFlagRecord(cliOptions[nH])

\* C6: the iteration that reads a bare token naming a Flag record sets that
\* record to true, changes no other record, and advances i by one, so the
\* next iteration reads the following token as a key.
C6_FlagConsumesOneToken ==
    [][(/\ AtToken
        /\ ~HasEq(CurrentToken)
        /\ CurrentToken \in DOMAIN cliOptions
        /\ IsFlagRecord(cliOptions[CurrentToken]))
       => (/\ pc' = "scan"
           /\ i' = i + 1
           /\ argv' = argv
           /\ DOMAIN cliOptions' = DOMAIN cliOptions
           /\ cliOptions'[CurrentToken].arg = TRUE
           /\ \A k \in DOMAIN cliOptions \ {CurrentToken} :
                 SameRecord(cliOptions'[k], cliOptions[k]))]_vars

\* C6 witness: the scan has just read a flag as argv[1] and is about to read
\* argv[2], which names a non-Flag record, as a key
C6_Witness ==
    /\ AtToken
    /\ i = 2
    /\ argv[2] \in DOMAIN cliOptions
    /\ IsFlagRecord(cliOptions[argv[2]])
    /\ cliOptions[argv[2]].info = FLAG_OVERRIDEN_BY_USER
    /\ argv[3] \in DOMAIN cliOptions
    /\ ~IsFlagRecord(cliOptions[argv[3]])

\* the scan of the call that is over threw nothing
ScanCompleted == ParseOver /\ ret.err \in {"none", "MissingRequiredOptions"}

\* parse failed with one MissingRequiredOptionsError that lists exactly the
\* Required records still unset, each once
MissingReported ==
    /\ ret.err = "MissingRequiredOptions"
    /\ Range(ret.names) = RequiredUnset(cliOptions)
    /\ Len(ret.names) = Cardinality(RequiredUnset(cliOptions))

\* C7 (as claimed): for an argument list of any length, if
\* suppressMissingRequired is false and a Required record is unset once the
\* arguments are processed, parse fails with MissingRequiredOptions listing
\* exactly the unset Required records.
C7_AnyLength ==
    (/\ ScanCompleted
     /\ ~suppressMissingRequiredOptionsError
     /\ RequiredUnset(cliOptions) # {})
    => MissingReported

\* C7 (amended): the same for every argument list of at least one token
\* (argc >= 1); with argc = 0 parse returns at once, without the check.
C7_MissingRequiredReported ==
    (/\ ScanCompleted
     /\ Len(argv) >= 1
     /\ ~suppressMissingRequiredOptionsError
     /\ RequiredUnset(cliOptions) # {})
    => MissingReported

\* C7 witness: two Required records were unset, beside a record that is not
\* Required, and both are listed
C7_Witness ==
    /\ ParseOver
    /\ ret.err = "MissingRequiredOptions"
    /\ Len(ret.names) = 2
    /\ Cardinality(DOMAIN cliOptions) = 3
    /\ Len(argv) >= 2

\* every declared record can be read with its own kind
AllReadable ==
    \A k \in DOMAIN cliOptions : getOptionErr(cliOptions, k, cliOptions[k].kind) = "none"

\* C8 (as claimed): whenever parse returns normally with
\* suppressMissingRequired false, every declared record is usable, and
\* get<K>(name) with the record's own kind K does not fail.
C8_AnyReturn ==
    (ParseOver /\ ret.err = "none" /\ ~suppressMissingRequiredOptionsError)
    => (RequiredUnset(cliOptions) = {} /\ AllReadable)

\* C8 (amended): the same whenever parse returns normally on an argument
\* list of at least one token (argc >= 1).
C8_ReadableAfterParse ==
    (/\ ParseOver
     /\ ret.err = "none"
     /\ Len(argv) >= 1
     /\ ~suppressMissingRequiredOptionsError)
    => (RequiredUnset(cliOptions) = {} /\ AllReadable)

\* C8 witness: parse returned normally after it set a Required record
C8_Witness ==
    /\ ParseOver
    /\ ret.err = "none"
    /\ ~suppressMissingRequiredOptionsError
    /\ \E k \in DOMAIN cliOptions : cliOptions[k].info = REQUIRED_PROVIDED_BY_USER
    /\ Cardinality(DOMAIN cliOptions) >= 2

\* C9: with ignoreUnknown false, the iteration that reads a token whose key
\* is not declared throws NoSuchOptionException carrying that key, and no
\* record changes.
C9_UnknownRejected ==
    [][(/\ AtToken
        /\ ~ignoreUnknownOptions
        /\ KeyOf(CurrentToken) \notin DOMAIN cliOptions)
       => (/\ pc' = "done"
           /\ ret'.err = "NoSuchOption"
           /\ ret'.name = KeyOf(CurrentToken)
           /\ ret'.at = i
           /\ SameRegistry(cliOptions', cliOptions))]_vars

\* C9 witness: parse threw NoSuchOption at its second token, which holds an
\* '=', after its first token set a record
C9_Witness ==
    /\ ParseOver
    /\ ret.err = "NoSuchOption"
    /\ ret.at = 2
    /\ HasEq(argv[3])
    /\ ret.name = KeyOf(argv[3])
    /\ argv[2] \in DOMAIN cliOptions
    /\ isSetByUser(cliOptions[argv[2]].info)

\* C10: with ignoreUnknown true, the iteration that reads a token whose key
\* is not declared changes no record and advances i by one, so that the next
\* iteration reads the following token as a key; and parse never throws
\* NoSuchOptionException.
C10_UnknownSkipped ==
    [][/\ (/\ AtToken
           /\ ignoreUnknownOptions
           /\ KeyOf(CurrentToken) \notin DOMAIN cliOptions)
          => (/\ pc' = "scan"
              /\ i' = i + 1
              /\ argv' = argv
              /\ SameRegistry(cliOptions', cliOptions))
       /\ (ret'.op = "parse" /\ ignoreUnknownOptions') => ret'.err # "NoSuchOption"]_vars

\* C10 witness: an unknown token with an '=' was skipped as argv[1], and the
\* bare token after it, read as a key, set a flag
C10_Witness ==
    /\ pc = "scan"
    /\ ignoreUnknownOptions
    /\ i = 3
    /\ HasEq(argv[2])
    /\ KeyOf(argv[2]) \notin DOMAIN cliOptions
    /\ argv[3] \in DOMAIN cliOptions
    /\ cliOptions[argv[3]].info = FLAG_OVERRIDEN_BY_USER

\* C11: getOption<T>(name) on a record that is good() returns the record's
\* value (its declared default while the user has not set it) when T is the
\* record's kind, and throws BadOptionCastException for each of the other
\* seven kinds, the other integer kinds and the other floating-point kinds
\* included, whether or not the record is set by the user.
C11_CastChecked ==
    \A k \in DOMAIN cliOptions :
        good(cliOptions[k].info)
        => \A T \in Kinds :
              IF T = cliOptions[k].kind
              THEN /\ getOption(cliOptions, k, T).err = "none"
                   /\ getOption(cliOptions, k, T).val = cliOptions[k].arg
                   /\ ~isSetByUser(cliOptions[k].info)
                      => getOption(cliOptions, k, T).val \in Defaults(T)
              ELSE getOption(cliOptions, k, T).err = "BadOptionCast"

\* C11 witness: a float record set by the user from the text 1.5 reads as 1.5
\* and refuses to be read as a double
C11_Witness ==
    /\ pc = "idle"
    /\ nO \in DOMAIN cliOptions
    /\ cliOptions[nO].kind = "float"
    /\ cliOptions[nO].info = REQUIRED_PROVIDED_BY_USER
    /\ getOption(cliOptions, nO, "float") = Conv("none", Dec(15, -1))
    /\ getOption(cliOptions, nO, "double").err = "BadOptionCast"

\* C12: getOption<T>(name) throws NoSuchOptionException exactly when name is
\* not declared, and BadOptionAccessException exactly when name is declared
\* and its record is Required and not set by the user, whatever T is.
C12_AccessErrors ==
    \A opt \in Names, T \in Kinds :
        /\ getOptionErr(cliOptions, opt, T) = "NoSuchOption" <=> opt \notin DOMAIN cliOptions
        /\ getOptionErr(cliOptions, opt, T) = "BadOptionAccess"
              <=> /\ opt \in DOMAIN cliOptions
                  /\ cliOptions[opt].info \notin {OPTIONAL, FLAG}
                  /\ BitAnd(cliOptions[opt].info, SET_BY_USER) = 0

\* C12 witness: after a parse, one name is not declared and a Required int
\* record is still unset; reading it as a string throws BadOptionAccess
C12_Witness ==
    /\ pc = "idle"
    /\ executablePath # <<>>
    /\ Names \ DOMAIN cliOptions # {}
    /\ \E k \in DOMAIN cliOptions :
          /\ cliOptions[k].kind = "int"
          /\ cliOptions[k].info = REQUIRED
          /\ getOptionErr(cliOptions, k, "string") = "BadOptionAccess"

\* s is the word w (given in lower case) up to the case of its letters
SameLetters(s, w) ==
    /\ Len(s) = Len(w)
    /\ \A p \in 1..Len(w) :
          s[p] = w[p] \/ \E u \in 1..26 : Lower[u] = w[p] /\ Upper[u] = s[p]

\* t is a spelling of the bool value b: y / true, n / false, in any letter case
Spells(t, b) ==
    IF b THEN SameLetters(t, <<"y">>) \/ SameLetters(t, <<"t", "r", "u", "e">>)
    ELSE SameLetters(t, <<"n">>) \/ SameLetters(t, <<"f", "a", "l", "s", "e">>)

\* the bare token at position k of the scan names a non-Flag record
NamesValueOption(reg, tok) == ~HasEq(tok) /\ tok \in DOMAIN reg /\ ~IsFlagRecord(reg[tok])

\* C13: parse over [path, opt, text], opt a Required or Optional record of
\* kind K, returns normally and getOption<K>(opt) then returns v, when text is
\* textOf(v) for a value v of a non-bool K (negative numbers, texts with '='
\* and the text of the option's own name included), and when K is bool and
\* text spells v as y / true / n / false in any letter case.
C13_RoundTrip ==
    (ParseOver /\ Len(argv) = 3 /\ NamesValueOption(cliOptions, argv[2]))
    => \A v \in Values(cliOptions[argv[2]].kind) :
          (IF cliOptions[argv[2]].kind = "bool"
           THEN Spells(argv[3], v)
           ELSE argv[3] = textOf(cliOptions[argv[2]].kind, v))
          => /\ ret.err = "none"
             /\ getOption(cliOptions, argv[2], cliOptions[argv[2]].kind) = Conv("none", v)
             /\ isSetByUser(cliOptions[argv[2]].info)

\* C13 witness: parse over [prog, -o, -5] returned and the long record -o reads -5
C13_Witness ==
    /\ ParseOver
    /\ argv = <<tProg, nO, textOf("long", -5)>>
    /\ nO \in DOMAIN cliOptions
    /\ cliOptions[nO].kind = "long"
    /\ getOption(cliOptions, nO, "long") = Conv("none", -5)

\* the scan is about to read a bare token that names a non-Flag record of one
\* of the kinds, and a token follows it
AtValueOf(kinds) ==
    /\ AtToken
    /\ NamesValueOption(cliOptions, CurrentToken)
    /\ cliOptions[CurrentToken].kind \in kinds
    /\ i + 1 < Len(argv)

\* the value token of the option the scan is about to read
ValueToken == argv[i + 2]

\* the iteration stored b in the record of the current token and went on
StoredBool(b) ==
    /\ pc' = "scan"
    /\ cliOptions'[CurrentToken].arg = b
    /\ isSetByUser(cliOptions'[CurrentToken].info)

\* the iteration threw err and changed no record
Threw(err) ==
    /\ pc' = "done"
    /\ ret'.err = err
    /\ SameRegistry(cliOptions', cliOptions)

\* C14: the value text of a bool option is accepted exactly when, up to the
\* case of its letters, it is y or true (the value is true) or n or false
\* (the value is false); any other text, the empty text, yes, no, 1 and 0
\* included, makes parse throw std::invalid_argument.
C14_BoolTexts ==
    [][AtValueOf({"bool"})
       => IF Spells(ValueToken, TRUE) THEN StoredBool(TRUE)
          ELSE IF Spells(ValueToken, FALSE) THEN StoredBool(FALSE)
          ELSE Threw("invalid_argument")]_vars

\* C14 witness: the bool record -o was set to true by an earlier parse, and
\* parse over [prog, -o, ""] threw std::invalid_argument
C14_Witness ==
    /\ ParseOver
    /\ argv = <<tProg, nO, tEmpty>>
    /\ ret.err = "invalid_argument"
    /\ nO \in DOMAIN cliOptions
    /\ cliOptions[nO].kind = "bool"
    /\ cliOptions[nO].arg = TRUE
    /\ isSetByUser(cliOptions[nO].info)

\* t is a base-10 integer: an optional sign, then digits only
IsInteger(t) == Unsigned(t) # <<>> /\ \A p \in 1..Len(Unsigned(t)) : IsDigit(Unsigned(t)[p])

\* the integer t lies outside the range of the kind
OutOfRange(kind, t) ==
    /\ IsInteger(t)
    /\ ~DigitsLE(StripZeros(Unsigned(t)), IF IsNeg(t) THEN MinDigits(kind) ELSE MaxDigits(kind))

\* C15 (as claimed): the value text of an integer-kind option that is not a
\* base-10 integer, or whose number is outside the kind's range, makes parse
\* throw std::invalid_argument, the same exception in both cases.
C15_IntRejected ==
    [][(AtValueOf(IntKinds)
        /\ (~IsInteger(ValueToken) \/ OutOfRange(cliOptions[CurrentToken].kind, ValueToken)))
       => Threw("invalid_argument")]_vars

\* What holds of the code: a text that does not start (after an optional
\* sign) with a digit throws std::invalid_argument; an integer outside the
\* range throws std::out_of_range; digits followed by other text are accepted
\* as the number the digits spell.
IntTextOutcomes ==
    [][AtValueOf(IntKinds)
       => IF DigitRun(Unsigned(ValueToken)) = 0 THEN Threw("invalid_argument")
          ELSE IF OutOfRange(cliOptions[CurrentToken].kind,
                             Take(ValueToken, Len(ValueToken) - Len(Unsigned(ValueToken))
                                              + DigitRun(Unsigned(ValueToken))))
          THEN Threw("out_of_range")
          ELSE pc' = "scan" /\ isSetByUser(cliOptions'[CurrentToken].info)]_vars

\* getOption<T>(k) throws BadOptionAccessException for every T
Unreadable(reg, k) == \A T \in Kinds : getOptionErr(reg, k, T) = "BadOptionAccess"

\* C16: a parse called with suppressMissingRequiredOptionsError = true never
\* throws MissingRequiredOptionsError; every Required record that its scan
\* does not assign stays as it was, reports isSetByUser = false, and
\* getOption on it throws BadOptionAccessException.
C16_Suppressed ==
    [][(pc = "scan" /\ suppressMissingRequiredOptionsError)
       => /\ ret'.err # "MissingRequiredOptions"
          /\ \A k \in RequiredUnset(cliOptions) :
                ~(AtToken /\ KeyOf(CurrentToken) = k)
                => /\ SameRecord(cliOptions'[k], cliOptions[k])
                   /\ ~isSetByUser(cliOptions'[k].info)
                   /\ Unreadable(cliOptions', k)]_vars

\* C16 witness: a parse with the check suppressed returned normally over an
\* argument list that set one option, and a Required record is still unset
C16_Witness ==
    /\ ParseOver
    /\ suppressMissingRequiredOptionsError
    /\ ret.err = "none"
    /\ Len(argv) = 3
    /\ argv[2] \in DOMAIN cliOptions
    /\ isSetByUser(cliOptions[argv[2]].info)
    /\ \E k \in RequiredUnset(cliOptions) : Unreadable(cliOptions, k)

\* C17: parse with argc = 0 returns normally at once, changes no record and
\* leaves executablePath as it was, whatever the registry holds and whatever
\* ignoreUnknownOptions and suppressMissingRequiredOptionsError are.
C17_EmptyArgsNoOp ==
    [][(pc = "idle" /\ ret'.op = "parse" /\ argv' = <<>>)
       => /\ pc' = "done"
          /\ ret'.err = "none"
          /\ SameRegistry(cliOptions', cliOptions)
          /\ executablePath' = executablePath]_vars

\* C17 witness: parse(0, ...) returned normally with the check not
\* suppressed, a Required record unset and executablePath kept from an
\* earlier parse
C17_Witness ==
    /\ ParseOver
    /\ argv = <<>>
    /\ ret.err = "none"
    /\ ~suppressMissingRequiredOptionsError
    /\ executablePath = tProg
    /\ RequiredUnset(cliOptions) # {}

\* C18: the scan never reads token 0: parse enters its loop at token 1 with
\* the registry as it was, whatever token 0 is; executablePath is empty at
\* first, changes only when a parse with argc >= 1 starts, and from then to
\* the end of that parse (by return or by exception) equals its token 0.
C18_TokenZero ==
    [][/\ executablePath' # executablePath
          => (pc = "idle" /\ ret'.op = "parse" /\ Len(argv') >= 1)
       /\ (ret'.op = "parse" /\ Len(argv') >= 1) => executablePath' = argv'[1]
       /\ (pc = "idle" /\ ret'.op = "parse")
          => /\ SameRegistry(cliOptions', cliOptions)
             /\ ret'.err = "none"
             /\ pc' = "scan" => i' = 1
       /\ AtToken' => i' >= 1
       /\ (ret'.op = "parse" /\ Len(argv') = 1) => SameRegistry(cliOptions', cliOptions)]_vars

\* C18 witness: parse over [-h, 1], -h a declared flag, threw
\* NoSuchOptionException for the token 1; the flag is still false and
\* executablePath is -h
C18_Witness ==
    /\ ParseOver
    /\ argv = <<nH, t1>>
    /\ ret.err = "NoSuchOption"
    /\ nH \in DOMAIN cliOptions
    /\ cliOptions[nH].info = FLAG
    /\ cliOptions[nH].arg = FALSE
    /\ executablePath = nH

\* the classification of a record: its info without the SET_BY_USER bit
Classification(info) == BitAnd(info, BitOr(BitOr(REQUIRED, OPTIONAL), FLAG_BIT))

\* C19: in every step (a declaration, a step of parse, a return; reads change
\* nothing) every record stays in the registry with its kind and its
\* classification, and a record that is set by the user stays set by the user.
C19_RecordStable ==
    [][\A k \in DOMAIN cliOptions :
          /\ k \in DOMAIN cliOptions'
          /\ cliOptions'[k].kind = cliOptions[k].kind
          /\ Classification(cliOptions'[k].info) = Classification(cliOptions[k].info)
          /\ isSetByUser(cliOptions[k].info) => isSetByUser(cliOptions'[k].info)]_vars

\* C19 witness: a parse that does not mention a record set by an earlier
\* parse has thrown, and the record is still set by the user
C19_Witness ==
    /\ ParseOver
    /\ Len(argv) >= 2
    /\ ret.err # "none"
    /\ \E k \in DOMAIN cliOptions :
          /\ cliOptions[k].info = REQUIRED_PROVIDED_BY_USER
          /\ \A p \in 1..Len(argv) : KeyOf(argv[p]) # k

\* what a record reads as when it has just been declared
Fresh(reg, k) ==
    IF reg[k].info = REQUIRED
    THEN /\ Unreadable(reg, k)
         /\ ~isOptional(reg[k].info)
         /\ ~isSetByUser(reg[k].info)
    ELSE IF reg[k].info = OPTIONAL
    THEN /\ getOption(reg, k, reg[k].kind).err = "none"
         /\ getOption(reg, k, reg[k].kind).val \in Defaults(reg[k].kind)
         /\ isOptional(reg[k].info)
         /\ ~isFlag(reg[k].info)
         /\ ~isSetByUser(reg[k].info)
    ELSE /\ reg[k].info = FLAG
         /\ getOption(reg, k, "bool") = Conv("none", FALSE)
         /\ isOptional(reg[k].info)
         /\ isFlag(reg[k].info)
         /\ ~isSetByUser(reg[k].info)

\* the classification a declaration call gives the record it creates
Declared(op) == IF op = "option" THEN REQUIRED ELSE IF op = "optionDefault" THEN OPTIONAL ELSE FLAG

\* C20: while no parse has read an argument list (executablePath is still
\* empty), a record declared Required is unreadable, not optional and not set
\* by the user; a record declared Optional reads as its declared default, is
\* optional, not a flag and not set by the user; a Flag reads as false, is
\* optional, a flag and not set by the user.
C20_FreshRecords ==
    [][executablePath' = <<>>
       => \A k \in DOMAIN cliOptions' :
             /\ Fresh(cliOptions', k)
             /\ k \notin DOMAIN cliOptions => cliOptions'[k].info = Declared(ret'.op)]_vars

\* C20 witness: before any parse the registry holds a Required, an Optional
\* and a Flag record, and the last declaration has just returned
C20_Witness ==
    /\ pc = "done"
    /\ ret.op \in DeclareOps
    /\ ret.err = "none"
    /\ executablePath = <<>>
    /\ {cliOptions[k].info : k \in DOMAIN cliOptions} = {REQUIRED, OPTIONAL, FLAG}

\* the text after the first '=' of a token that holds one
InlineValue(tok) == Drop(tok, Len(KeyOf(tok)) + 1)

\* the scan is about to read a token whose key names a record of one of the kinds
AtKeyOf(kinds) ==
    /\ AtToken
    /\ KeyOf(CurrentToken) \in DOMAIN cliOptions
    /\ cliOptions[KeyOf(CurrentToken)].kind \in kinds

\* C21: a record for which isFlag() is true has kind bool; isFlag() is true
\* of a record exactly when flag() created it, and stays so when the user
\* sets it; a bool record declared with a default is Optional and not a Flag:
\* the scan changes it only from a value token or an inline value that spells
\* the new value, and its bare name as the last token does not set it.
C21_FlagsAreBool ==
    [][/\ \A k \in DOMAIN cliOptions' :
             /\ isFlag(cliOptions'[k].info) => cliOptions'[k].kind = "bool"
             /\ k \notin DOMAIN cliOptions
                => (isFlag(cliOptions'[k].info) <=> ret'.op = "flag")
             /\ k \in DOMAIN cliOptions
                => (isFlag(cliOptions'[k].info) <=> isFlag(cliOptions[k].info))
             /\ (ret'.op = "optionDefault" /\ k \notin DOMAIN cliOptions)
                => isOptional(cliOptions'[k].info)
       /\ (AtKeyOf({"bool"}) /\ ~isFlag(cliOptions[KeyOf(CurrentToken)].info))
          => /\ ~SameRegistry(cliOptions', cliOptions)
                => IF HasEq(CurrentToken)
                   THEN Spells(InlineValue(CurrentToken), cliOptions'[KeyOf(CurrentToken)].arg)
                   ELSE /\ i + 1 < Len(argv)
                        /\ Spells(ValueToken, cliOptions'[CurrentToken].arg)
                        /\ i' = i + 2
             /\ (~HasEq(CurrentToken) /\ i + 1 = Len(argv))
                => (pc' # "scan" /\ SameRegistry(cliOptions', cliOptions))]_vars

\* C21 witness: the bool record -o, declared with a default, was set to true
\* by parse over [prog, -o, y] and is not a flag
C21_Witness ==
    /\ ParseOver
    /\ ret.err = "none"
    /\ argv = <<tProg, nO, tY>>
    /\ nO \in DOMAIN cliOptions
    /\ cliOptions[nO].kind = "bool"
    /\ cliOptions[nO].info = OPTIONAL_OVERRIDEN_BY_USER
    /\ cliOptions[nO].arg = TRUE
    /\ ~isFlag(cliOptions[nO].info)

QueryOps ==
    {"getOption", "hasOption", "isOptionOptional", "isOptionSetByUser", "isOptionFlag",
     "getAllPossibleOptions"}

\* C22: getOption, hasOption, isOptionOptional, isOptionSetByUser,
\* isOptionFlag and getAllPossibleOptions leave the registry (and
\* executablePath) as it was, whether they return or throw; hasOption never
\* throws and tells whether the name is declared; isOptionOptional,
\* isOptionSetByUser and isOptionFlag throw NoSuchOptionException exactly
\* when the name is not declared, and nothing else; getAllPossibleOptions
\* returns the declared names.
C22_QueriesPure ==
    [][(pc = "idle" /\ ret'.op \in QueryOps)
       => /\ SameRegistry(cliOptions', cliOptions)
          /\ executablePath' = executablePath
          /\ ret'.op = "hasOption"
             => (ret'.err = "none" /\ (ret'.val <=> ret'.name \in DOMAIN cliOptions))
          /\ ret'.op \in {"isOptionOptional", "isOptionSetByUser", "isOptionFlag"}
             => ret'.err = IF ret'.name \in DOMAIN cliOptions THEN "none" ELSE "NoSuchOption"
          /\ ret'.op = "getAllPossibleOptions"
             => (/\ ret'.err = "none"
                 /\ Range(ret'.names) = DOMAIN cliOptions
                 /\ Len(ret'.names) = Cardinality(DOMAIN cliOptions))]_vars

\* C22 witness: after a parse that set a record, isOptionFlag on a name that
\* is not declared has thrown NoSuchOptionException
C22_Witness ==
    /\ pc = "done"
    /\ ret.op = "isOptionFlag"
    /\ ret.err = "NoSuchOption"
    /\ ret.name \notin DOMAIN cliOptions
    /\ \E k \in DOMAIN cliOptions : isSetByUser(cliOptions[k].info)

\* the value that the token in key position k (0-based) gives the record it
\* names: true for a flag, else the conversion of its inline value or of the
\* token after it
ValueAt(reg, args, k) ==
    IF IsFlagRecord(reg[KeyOf(args[k + 1])]) THEN TRUE
    ELSE IF HasEq(args[k + 1])
    THEN parseArg(reg[KeyOf(args[k + 1])].kind, InlineValue(args[k + 1])).val
    ELSE parseArg(reg[args[k + 1]].kind, args[k + 2]).val

\* the key positions before index n whose key names a record
AppliedBefore(reg, args, n) ==
    {k \in KeyIndices(reg, args, 1) : k < n /\ KeyOf(args[k + 1]) \in DOMAIN reg}

\* every record named in a key position before index n is set by the user and
\* holds the value of the last of these positions that names it
Applied(reg, args, n) ==
    \A k \in AppliedBefore(reg, args, n) :
        /\ isSetByUser(reg[KeyOf(args[k + 1])].info)
        /\ (\A l \in AppliedBefore(reg, args, n) :
               KeyOf(args[l + 1]) = KeyOf(args[k + 1]) => l <= k)
           => reg[KeyOf(args[k + 1])].arg = ValueAt(reg, args, k)

\* C23: when an iteration of the scan throws (NoSuchOptionException for an
\* unknown key, std::invalid_argument for '=' on a flag, or the exception of
\* a value that cannot be converted), it changes no record, and every record
\* named by the tokens before the failing one holds the value they gave it
\* and is set by the user.
C23_NoRollback ==
    [][(pc = "scan" /\ pc' = "done"
        /\ ret'.err \in {"NoSuchOption", "invalid_argument", "out_of_range"})
       => /\ SameRegistry(cliOptions', cliOptions)
          /\ ret'.at = i
          /\ Applied(cliOptions', argv, i)]_vars

\* C23 witness: parse over [prog, -h=1, 1] set the int record -h to 1 and
\* then threw NoSuchOptionException at its third token
C23_Witness ==
    /\ ParseOver
    /\ argv = <<tProg, tHeq1, t1>>
    /\ ret.err = "NoSuchOption"
    /\ ret.at = 2
    /\ nH \in DOMAIN cliOptions
    /\ cliOptions[nH].kind = "int"
    /\ cliOptions[nH].arg = 1
    /\ isSetByUser(cliOptions[nH].info)

\* C24: parse throws MissingRequiredOptionsError only when the scan has read
\* the whole argument list, and every record named in a key position then
\* holds the value the list gave it and is set by the user; in the scenario,
\* parse over [prog, --help] with the check not suppressed throws it (-n is
\* Required and unset) and getOption<bool>(--help) returns true.
C24_MissingAfterScan ==
    /\ (ParseOver /\ ret.err = "MissingRequiredOptions")
       => (i >= Len(argv) /\ Applied(cliOptions, argv, Len(argv)))
    /\ (ParseOver /\ argv = <<tProg, nHelp>> /\ ~suppressMissingRequiredOptionsError)
       => /\ ret.err = "MissingRequiredOptions"
          /\ getOption(cliOptions, nHelp, "bool") = Conv("none", TRUE)

\* C24 witness: parse over [prog, --help] threw MissingRequiredOptionsError
\* naming -n, and --help reads true
C24_Witness ==
    /\ ParseOver
    /\ argv = <<tProg, nHelp>>
    /\ ret.err = "MissingRequiredOptions"
    /\ ret.names = <<nN>>
    /\ getOption(cliOptions, nHelp, "bool") = Conv("none", TRUE)

\* the iteration stored the conversion r in the record k and moved on by n tokens
StoredValue(k, r, n) ==
    /\ pc' = "scan"
    /\ i' = i + n
    /\ cliOptions'[k].arg = r.val
    /\ isSetByUser(cliOptions'[k].info)

\* C25: when the scan reads a bare token that names a non-Flag record and a
\* token follows, that token is the value whatever it is, a declared option
\* or flag name or a text with '=' included: it is converted to the record's
\* kind (a string record stores it verbatim), the record is marked set by
\* the user and the scan resumes two tokens later; if the conversion throws,
\* parse throws.
C25_NextTokenIsValue ==
    [][AtValueOf(Kinds)
       => IF parseArg(cliOptions[CurrentToken].kind, ValueToken).err = "none"
          THEN /\ StoredValue(CurrentToken,
                              parseArg(cliOptions[CurrentToken].kind, ValueToken), 2)
               /\ cliOptions[CurrentToken].kind = "string"
                  => cliOptions'[CurrentToken].arg = ValueToken
          ELSE Threw(parseArg(cliOptions[CurrentToken].kind, ValueToken).err)]_vars

\* C25 witness: parse over [prog, -n, -h] returned; the string record -n
\* holds the text -h and the declared flag -h is still false
C25_Witness ==
    /\ ParseOver
    /\ ret.err = "none"
    /\ argv = <<tProg, nN, nH>>
    /\ {nN, nH} \subseteq DOMAIN cliOptions
    /\ cliOptions[nN].kind = "string"
    /\ cliOptions[nN].arg = nH
    /\ isSetByUser(cliOptions[nN].info)
    /\ cliOptions[nH].info = FLAG

\* the scan is about to read a token with an '=' whose key names a non-Flag record
AtInlineValue ==
    /\ AtToken
    /\ HasEq(CurrentToken)
    /\ KeyOf(CurrentToken) \in DOMAIN cliOptions
    /\ ~IsFlagRecord(cliOptions[KeyOf(CurrentToken)])

\* C26: a token with an '=' is split at its first '=': the key is the text
\* before it, the inline value all the text after it (empty, or holding
\* further '='); when the key names a non-Flag record, the inline value is
\* converted to the record's kind and stored (verbatim in a string record),
\* the record is marked set by the user and the scan moves on by one token;
\* if the conversion throws, parse throws.
C26_SplitAtFirstEq ==
    [][AtInlineValue
       => IF parseArg(cliOptions[KeyOf(CurrentToken)].kind, InlineValue(CurrentToken)).err
                = "none"
          THEN /\ StoredValue(KeyOf(CurrentToken),
                              parseArg(cliOptions[KeyOf(CurrentToken)].kind,
                                       InlineValue(CurrentToken)), 1)
               /\ cliOptions[KeyOf(CurrentToken)].kind = "string"
                  => cliOptions'[KeyOf(CurrentToken)].arg = InlineValue(CurrentToken)
          ELSE Threw(parseArg(cliOptions[KeyOf(CurrentToken)].kind,
                              InlineValue(CurrentToken)).err)]_vars

\* C26 witness: parse over [prog, -n=a=b] returned and the string record -n
\* holds a=b
C26_Witness ==
    /\ ParseOver
    /\ ret.err = "none"
    /\ argv = <<tProg, tNeqAeqB>>
    /\ nN \in DOMAIN cliOptions
    /\ cliOptions[nN].kind = "string"
    /\ cliOptions[nN].arg = tAeqB
    /\ isSetByUser(cliOptions[nN].info)

\* C27 (as claimed): when the bare name of a non-Flag option is the last
\* token, parse throws and the record is not changed.
C27_LastTokenFails ==
    [][(AtToken /\ NamesValueOption(cliOptions, CurrentToken) /\ i + 1 = Len(argv))
       => (/\ pc' = "done"
           /\ ret'.err # "none"
           /\ SameRegistry(cliOptions', cliOptions))]_vars

\* What holds of the code in that case: the record is not changed and parse
\* does not go on; it throws std::logic_error or the process ends.
LastTokenOutcomes ==
    [][(AtToken /\ NamesValueOption(cliOptions, CurrentToken) /\ i + 1 = Len(argv))
       => (/\ SameRegistry(cliOptions', cliOptions)
           /\ \/ pc' = "done" /\ ret'.err = "logic_error"
              \/ pc' = "crashed")]_vars

\* C28: a step changes a record only when the scan reads, in option-key
\* position, a token whose key is the record's name; hence every other record
\* keeps its value and its setByUser bit, and an Optional record that was
\* never supplied reads as its default and is not set by the user, whether
\* parse returns or throws.
C28_OnlyNamedChange ==
    [][/\ \A k \in DOMAIN cliOptions :
             ~SameRecord(cliOptions'[k], cliOptions[k])
             => (/\ AtToken
                 /\ KeyOf(CurrentToken) = k
                 /\ i \in KeyIndices(cliOptions, argv, 1))
       /\ \A k \in DOMAIN cliOptions' :
             cliOptions'[k].info = OPTIONAL
             => /\ getOption(cliOptions', k, cliOptions'[k].kind).err = "none"
                /\ getOption(cliOptions', k, cliOptions'[k].kind).val
                      \in Defaults(cliOptions'[k].kind)
                /\ ~isSetByUser(cliOptions'[k].info)]_vars

\* C28 witness: a parse that set one record has thrown, and an Optional
\* record that its argument list does not name still holds its default
C28_Witness ==
    /\ ParseOver
    /\ ret.err = "NoSuchOption"
    /\ Len(argv) = 3
    /\ \E k \in DOMAIN cliOptions :
          /\ cliOptions[k].info = OPTIONAL
          /\ cliOptions[k].arg \in Defaults(cliOptions[k].kind)
          /\ \A p \in 1..Len(argv) : KeyOf(argv[p]) # k
    /\ KeyOf(argv[2]) \in DOMAIN cliOptions
    /\ isSetByUser(cliOptions[KeyOf(argv[2])].info)

\* the text the scan is about to hand to setArgFromInput
GivenValue == IF HasEq(CurrentToken) THEN InlineValue(CurrentToken) ELSE ValueToken

\* the scan is about to read a token that gives a value to a non-Flag record
AtGivenValue == AtInlineValue \/ AtValueOf(Kinds)

\* C29: when the conversion of the value given to a record throws (the value
\* after the option or after its '='), parse throws that exception and the
\* record is as it was: a Required record not yet supplied stays unreadable,
\* and a record set before keeps its value and stays set by the user.
C29_FailedValueKeepsRecord ==
    [][(/\ AtGivenValue
        /\ parseArg(cliOptions[KeyOf(CurrentToken)].kind, GivenValue).err # "none")
       => /\ pc' = "done"
          /\ ret'.err = parseArg(cliOptions[KeyOf(CurrentToken)].kind, GivenValue).err
          /\ SameRecord(cliOptions'[KeyOf(CurrentToken)], cliOptions[KeyOf(CurrentToken)])
          /\ cliOptions[KeyOf(CurrentToken)].info = REQUIRED
             => Unreadable(cliOptions', KeyOf(CurrentToken))
          /\ isSetByUser(cliOptions[KeyOf(CurrentToken)].info)
             => isSetByUser(cliOptions'[KeyOf(CurrentToken)].info)]_vars

\* C29 witness: parse over [prog, -n=12, -n=] set the int record -n to 12 and
\* threw std::invalid_argument at -n=; the record still holds 12
C29_Witness ==
    /\ ParseOver
    /\ argv = <<tProg, tNeq12, tNeq>>
    /\ ret.err = "invalid_argument"
    /\ ret.at = 2
    /\ nN \in DOMAIN cliOptions
    /\ cliOptions[nN].kind = "int"
    /\ cliOptions[nN].arg = 12
    /\ isSetByUser(cliOptions[nN].info)

\* C30: a value given to a non-Flag record that is already set by the user,
\* by an earlier token or an earlier parse, is treated as the first one was:
\* no exception but that of its conversion; if it converts, it replaces the
\* stored value, else the stored value stays; the record stays set by the
\* user.  After a parse that returns normally every record named in the
\* argument list holds the value of its last occurrence.
C30_RepeatOverwrites ==
    [][/\ (AtGivenValue /\ isSetByUser(cliOptions[KeyOf(CurrentToken)].info))
          => /\ ret'.err = parseArg(cliOptions[KeyOf(CurrentToken)].kind, GivenValue).err
             /\ isSetByUser(cliOptions'[KeyOf(CurrentToken)].info)
             /\ cliOptions'[KeyOf(CurrentToken)].arg
                   = IF ret'.err = "none"
                     THEN parseArg(cliOptions[KeyOf(CurrentToken)].kind, GivenValue).val
                     ELSE cliOptions[KeyOf(CurrentToken)].arg
       /\ (ParseOver' /\ ret'.err = "none") => Applied(cliOptions', argv', Len(argv'))]_vars

\* C30 witness: parse over [prog, -n=12, -n=a=b] returned and the string
\* record -n holds a=b
C30_Witness ==
    /\ ParseOver
    /\ ret.err = "none"
    /\ argv = <<tProg, tNeq12, tNeqAeqB>>
    /\ nN \in DOMAIN cliOptions
    /\ cliOptions[nN].kind = "string"
    /\ cliOptions[nN].arg = tAeqB
    /\ isSetByUser(cliOptions[nN].info)

=============================================================================
